---- MODULE Spec2Model ----
(***************************************************************************)
(* Air-Q-Maps: the route exposure scoring pipeline.                        *)
(*                                                                         *)
(*   app.py                 route analysis section (score, rank, report)   *)
(*   src/compute_scores.py  sample_route_points, compute_route_metrics     *)
(*   src/get_aqi.py         get_pm25_openaq, get_pm25_aqicn,               *)
(*                          get_pm25_nearby, haversine_distance            *)
(*                                                                         *)
(* Numbers.  PM2.5 readings and scores are kept in hundredths (the code    *)
(* rounds every reported number to 2 decimals), so 60.00 is 6000.  The     *)
(* arithmetic is exact rational arithmetic, rounded half-to-even where     *)
(* the code calls round(x, 2).  Binary floating-point error is not         *)
(* modelled: it can change a result only where the exact value lies        *)
(* halfway between two hundredths, which no input set below produces.      *)
(* Coordinates are points of a metre grid and the great-circle distance    *)
(* is abstracted to the grid distance in metres.  st.cache_data is         *)
(* modelled within one run of the script, starting empty.                  *)
(***************************************************************************)
EXTENDS Integers, Sequences, FiniteSets

VARIABLES
    routes,          \* app.py: routes = cached_route(...), a list of routes
    sample_points,   \* app.py: the "AQI Sampling Density" slider
    AQICN_TOKEN,     \* get_aqi.py: os.getenv("AQICN_TOKEN") is set (TRUE) or not
    pc,              \* position of the script
    i,               \* app.py: enumerate(routes, 1) ordinal of the current route
    sampled_points,  \* compute_route_metrics: sampled_points
    k,               \* compute_route_metrics: position of the for loop (1-based)
    pm_values,       \* compute_route_metrics: pm_values
    returned,        \* history: what get_pm25_nearby returned for each sample of this route
    lookups,         \* history: number of get_pm25_nearby calls made for this route
    primary,         \* the OpenAQ response of the last lookup
    secondary,       \* the AQICN response of the last lookup (or not called)
    pm,              \* compute_route_metrics: pm, the last lookup's result
    metrics,         \* app.py: metrics of the last route scored
    cache,           \* app.py: st.cache_data store of cached_metrics
    produced,        \* history: the metrics cached_metrics returned, per route ordinal
    route_scores,    \* app.py: route_scores
    best             \* app.py: best

vars == << routes, sample_points, AQICN_TOKEN, pc, i, sampled_points, k, pm_values,
           returned, lookups, primary, secondary, pm, metrics, cache, produced,
           route_scores, best >>

----------------------------------------------------------------------------
(* Python values *)

\* None, a float result, and an exception leaving a function.
None == [tag |-> "none", v |-> 0]

Val(x) == [tag |-> "val", v |-> x]

Raised == [tag |-> "raise", v |-> 0]

\* Python truth value of an optional float: None and 0.0 are false.
Truthy(x) == x.tag = "val" /\ x.v # 0

\* JSON values of a response field: a number, null, or the key is missing.
JNum(n) == [t |-> "num", n |-> n]

JNull == [t |-> "null", n |-> 0]

JMissing == [t |-> "missing", n |-> 0]

\* A JSON string that is not a number (AQICN reports "-" for no value).
JStr == [t |-> "str", n |-> 0]

Max2(a, b) == IF a >= b THEN a ELSE b

Abs(a) == IF a >= 0 THEN a ELSE -a

RECURSIVE SumSeq(_)
SumSeq(s) == IF s = << >> THEN 0 ELSE Head(s) + SumSeq(Tail(s))

RECURSIVE MaxSeq(_)
MaxSeq(s) == IF Len(s) = 1 THEN s[1] ELSE Max2(Head(s), MaxSeq(Tail(s)))

\* round(): the quotient a/b (b > 0) rounded to the nearest integer, ties to even.
RoundHalfEven(a, b) ==
    LET q == a \div b
        r == a % b
    IN  IF 2 * r < b THEN q
        ELSE IF 2 * r > b THEN q + 1
        ELSE IF q % 2 = 0 THEN q ELSE q + 1

----------------------------------------------------------------------------
(* compute_scores.py: sample_route_points *)

\* Python's route_coords[::step]: the elements at 0-based indices 0, step, 2*step, ...
RECURSIVE Slice(_, _, _)
Slice(s, from, step) ==
    IF from > Len(s) THEN << >>
    ELSE << s[from] >> \o Slice(s, from + step, step)

\* A sampler that never decimates (step is always 1).
sample_route_points_all(route_coords, max_samples) ==
    IF Len(route_coords) = 0 THEN << >> ELSE Slice(route_coords, 1, 1)

\* A sampler whose stride starts at index step, not at index 0.
sample_route_points_skip(route_coords, max_samples) ==
    LET n == Len(route_coords)
        step == Max2(1, n \div max_samples)
    IN  IF n = 0 THEN << >> ELSE Slice(route_coords, 1 + step, step)

sample_route_points(route_coords, max_samples) ==
    LET n == Len(route_coords)
        step == Max2(1, n \div max_samples)
    IN  IF n = 0 THEN << >> ELSE Slice(route_coords, 1, step)

----------------------------------------------------------------------------
(* get_aqi.py: the providers *)

\* Great-circle distance, abstracted: coordinates are <<lat, lon>> points of a
\* metre grid and the distance is in metres.
haversine_distance(lat1, lon1, lat2, lon2) == Abs(lat2 - lat1) + Abs(lon2 - lon1)

\* weight = 1 / (dist + 0.001) with dist in km: 0.001 km is 1 metre, so the
\* weight is 1000 / (metres + EPS_M).
EPS_M == 1

\* The first measurement whose parameter is "pm25":
\*   next((m["value"] for m in measurements if m.get("parameter") == "pm25"), None)
\* JNull when there is none; JMissing stands for the KeyError of m["value"].
RECURSIVE FirstPm25(_)
FirstPm25(measurements) ==
    IF measurements = << >> THEN JNull
    ELSE IF Head(measurements).parameter = "pm25" THEN Head(measurements).value
    ELSE FirstPm25(Tail(measurements))

\* The loop over the stations: the list of <<value, metres + EPS_M>> pairs collected
\* (the code's values and weights lists); exc when an item raises (KeyError).
RECURSIVE Collect(_, _, _)
Collect(lat, lon, data) ==
    IF data = << >> THEN [exc |-> FALSE, vw |-> << >>]
    ELSE LET item == Head(data)
             rest == Collect(lat, lon, Tail(data))
             value == FirstPm25(item.measurements)
         IN  IF item.measurements = << >> THEN rest
             ELSE IF value.t = "missing" THEN [exc |-> TRUE, vw |-> << >>]
             ELSE IF value.t = "null" \/ item.coordinates.t = "null" THEN rest
             ELSE IF item.coordinates.t = "nolat" THEN [exc |-> TRUE, vw |-> << >>]
             ELSE IF rest.exc THEN rest
             ELSE [exc |-> FALSE,
                   vw |-> << << value.n,
                                haversine_distance(lat, lon, item.coordinates.lat,
                                                   item.coordinates.lon) + EPS_M >> >>
                          \o rest.vw]

\* sum(v * w) and sum(w) with w = 1/d, over the common denominator prod(d):
\* <<numerator of sum(v/d), numerator of sum(1/d), prod(d)>>.
RECURSIVE WeightSums(_)
WeightSums(vw) ==
    IF vw = << >> THEN << 0, 0, 1 >>
    ELSE LET r == WeightSums(Tail(vw))
             v == Head(vw)[1]
             d == Head(vw)[2]
         IN  << v * r[3] + r[1] * d, r[3] + r[2] * d, r[3] * d >>

\* The body of get_pm25_openaq's try block: a reading, None, or an exception.
get_pm25_openaq_try(lat, lon, r) ==
    IF r.net = "error" THEN Raised
    ELSE IF r.status # 200 THEN None
    ELSE IF r.body # "json" THEN Raised
    ELSE IF r.results = << >> THEN None
    ELSE LET c == Collect(lat, lon, r.results)
             s == WeightSums(c.vw)
         IN  IF c.exc THEN Raised
             ELSE IF c.vw = << >> THEN None
             ELSE Val(RoundHalfEven(100 * s[1], s[2]))

\* get_pm25_openaq without its except clause.
get_pm25_openaq_noexcept(lat, lon, r) == get_pm25_openaq_try(lat, lon, r)

\* try: ... except Exception: return None
get_pm25_openaq(lat, lon, r) ==
    LET x == get_pm25_openaq_try(lat, lon, r)
    IN  IF x = Raised THEN None ELSE x

\* The body of get_pm25_aqicn's try block.
get_pm25_aqicn_try(r) ==
    IF r.net = "error" THEN Raised
    ELSE IF r.status # 200 THEN None
    ELSE IF r.body # "json" THEN Raised
    ELSE IF r.jstatus # "ok" THEN None
    ELSE IF ~r.iaqi THEN Raised
    ELSE IF r.pm25.t = "str" THEN Raised
    ELSE IF r.pm25.t = "num" /\ r.pm25.n # 0 THEN Val(100 * r.pm25.n)
    ELSE None

\* if not AQICN_TOKEN: return None;  try: ... except Exception: return None
get_pm25_aqicn(token, r) ==
    IF ~token THEN None
    ELSE LET x == get_pm25_aqicn_try(r)
         IN  IF x = Raised THEN None ELSE x

\* OpenAQ first; AQICN only when OpenAQ gave None.  An exception leaving either
\* provider function leaves this one too.
get_pm25_nearby(lat, lon, token, p, s) ==
    LET a == get_pm25_openaq(lat, lon, p)
    IN  IF a # None THEN a ELSE get_pm25_aqicn(token, s)

----------------------------------------------------------------------------
(* compute_scores.py: compute_route_metrics, after its loop *)

NoMetrics ==
    [tag |-> "none", avg_pm25 |-> 0, max_pm25 |-> 0, pollution_score |-> 0,
     healthiness_score |-> 0, samples_used |-> 0]

\* The record for readings s (hundredths), n = len(s), S = sum(s), M = max(s):
\*   avg_pm = S/n;  pollution_score = 0.7*avg_pm + 0.3*M = (7S + 3Mn)/(10n);
\*   healthiness_score = max(0, 100 - pollution_score/5)
\*                     = max(0, (500000n - 7S - 3Mn)/(50n))   in hundredths.
MetricsOf(s, divisor) ==
    LET n == divisor
        S == SumSeq(s)
        M == MaxSeq(s)
        h == 500000 * n - 7 * S - 3 * M * n
    IN  [tag |-> "val",
         avg_pm25 |-> RoundHalfEven(S, n),
         max_pm25 |-> M,
         pollution_score |-> RoundHalfEven(7 * S + 3 * M * n, 10 * n),
         healthiness_score |-> IF h < 0 THEN 0 ELSE RoundHalfEven(h, 50 * n),
         samples_used |-> Len(s)]

\* Metrics that average over the sampled points, not over the readings collected.
route_metrics_per_sample(values, n_sampled) ==
    IF values = << >> THEN NoMetrics ELSE MetricsOf(values, n_sampled)

\* Metrics that report a route without data as a route without pollution.
route_metrics_zero(values, n_sampled) ==
    IF values = << >>
    THEN [tag |-> "val", avg_pm25 |-> 0, max_pm25 |-> 0, pollution_score |-> 0,
          healthiness_score |-> 10000, samples_used |-> 0]
    ELSE MetricsOf(values, Len(values))

\* if not pm_values: return None;  otherwise the record of the four rounded numbers.
route_metrics(values, n_sampled) ==
    IF values = << >> THEN NoMetrics ELSE MetricsOf(values, Len(values))

----------------------------------------------------------------------------
(* app.py: ranking *)

\* An entry of route_scores: (i, metrics["healthiness_score"], metrics, route_coords).
ScoreEntry(id, m, route_coords) == << id, m.healthiness_score, m, route_coords >>

\* x placed behind every entry whose score is >= x's.
RECURSIVE InsertAfterEqual(_, _)
InsertAfterEqual(x, s) ==
    IF s = << >> THEN << x >>
    ELSE IF Head(s)[2] >= x[2] THEN << Head(s) >> \o InsertAfterEqual(x, Tail(s))
    ELSE << x >> \o s

\* x placed in front of the entries whose score is equal to x's.
RECURSIVE InsertBeforeEqual(_, _)
InsertBeforeEqual(x, s) ==
    IF s = << >> THEN << x >>
    ELSE IF Head(s)[2] > x[2] THEN << Head(s) >> \o InsertBeforeEqual(x, Tail(s))
    ELSE << x >> \o s

RECURSIVE SortInto(_, _, _)
SortInto(s, acc, stable) ==
    IF s = << >> THEN acc
    ELSE SortInto(Tail(s),
                  IF stable THEN InsertAfterEqual(Head(s), acc)
                  ELSE InsertBeforeEqual(Head(s), acc),
                  stable)

\* A descending sort that reverses the entries of equal score
\* (an ascending sort followed by a reversal).
sort_by_score_reversed(scores) == SortInto(scores, << >>, FALSE)

\* route_scores.sort(key=lambda x: x[1], reverse=True): descending and stable.
sort_by_score(scores) == SortInto(scores, << >>, TRUE)

----------------------------------------------------------------------------
(* st.cache_data: the store of cached_metrics, a set of <<route_coords, metrics>> *)

InCache(c, route_coords) == \E e \in c : e[1] = route_coords

CacheGet(c, route_coords) == (CHOOSE e \in c : e[1] = route_coords)[2]

----------------------------------------------------------------------------
(* The provider responses *)

Meas(parameter, value) == [parameter |-> parameter, value |-> value]

CoordAt(c) == [t |-> "ok", lat |-> c[1], lon |-> c[2]]

\* "coordinates": null (or no such key)
CoordNull == [t |-> "null", lat |-> 0, lon |-> 0]

\* "coordinates": {} without "latitude"
CoordNoLat == [t |-> "nolat", lat |-> 0, lon |-> 0]

Item(measurements, coordinates) ==
    [measurements |-> measurements, coordinates |-> coordinates]

\* requests.get raised (timeout, connection error)
NetError == [net |-> "error", status |-> 0, body |-> "", results |-> << >>]

HttpError == [net |-> "ok", status |-> 500, body |-> "", results |-> << >>]

\* status 200 with a body r.json() cannot parse
Garbage == [net |-> "ok", status |-> 200, body |-> "garbage", results |-> << >>]

Results(items) == [net |-> "ok", status |-> 200, body |-> "json", results |-> items]

NotCalled == [net |-> "notcalled", status |-> 0, body |-> "", results |-> << >>]

\* One station at c reporting PM2.5 v.
OneStation(v, c) == Results(<< Item(<< Meas("pm25", JNum(v)) >>, CoordAt(c)) >>)

Feed(net, status, body, jstatus, iaqi, pm25) ==
    [net |-> net, status |-> status, body |-> body, jstatus |-> jstatus,
     iaqi |-> iaqi, pm25 |-> pm25]

FeedNetError == Feed("error", 0, "", "", FALSE, JMissing)

FeedNotCalled == Feed("notcalled", 0, "", "", FALSE, JMissing)

FeedOk(pm25) == Feed("ok", 200, "json", "ok", TRUE, pm25)

SeqsUpTo(S, n) == UNION { [1..m -> S] : m \in 0..n }

----------------------------------------------------------------------------
(* Bounds and input sets *)

MaxRouteLen == 6
MaxSamples == 3
MaxStations == 2
MaxPoints == 4
MaxRoutes == 3

\* app.py: st.sidebar.slider("AQI Sampling Density", 5, 25, 12)
SLIDER_MIN == 5

Origin == << 0, 0 >>

Coords == { Origin, << 0, 1 >> }

\* Sampler: one route of any shape, any density.
SamplerRoutes == { << r >> : r \in SeqsUpTo(Coords, MaxRouteLen) }

SamplerPrimary == { OneStation(40, Origin) }

\* Source: one query point, every kind of response.
SourceRoutes == { << << Origin >> >> }

SourceMeasurements ==
    { << >>, << Meas("pm25", JNull) >>, << Meas("pm25", JMissing) >> }
    \cup { << Meas("no2", JNum(5)), Meas("pm25", JNum(v)) >> : v \in {0, 40} }

SourceItems ==
    { Item(m, c) : m \in SourceMeasurements,
                   c \in { CoordNull, CoordNoLat } \cup { CoordAt(x) : x \in Coords } }

SourcePrimary ==
    { NetError, HttpError, Garbage }
    \cup { Results(items) : items \in SeqsUpTo(SourceItems, MaxStations) }

SourceSecondary ==
    { FeedNetError,
      Feed("ok", 500, "", "", FALSE, JMissing),
      Feed("ok", 200, "garbage", "", FALSE, JMissing),
      Feed("ok", 200, "json", "error", FALSE, JMissing),
      Feed("ok", 200, "json", "ok", FALSE, JMissing) }
    \cup { FeedOk(x) : x \in { JMissing, JStr, JNum(0), JNum(55) } }

\* Metrics: one route of up to MaxPoints points, readings that exercise the formula.
MetricsRoutes == { << [j \in 1..n |-> Origin] >> : n \in 0..MaxPoints }

MetricsPrimary ==
    { Results(<< >>) } \cup { OneStation(v, Origin) : v \in { -10, 0, 40, 60, 80, 600 } }

\* Ranking: up to MaxRoutes short routes.
RankRoutes ==
    SeqsUpTo({ << >>, << Origin >>, << Origin, << 0, 1 >> >> }, MaxRoutes)

RankPrimary == { Results(<< >>), OneStation(40, Origin), OneStation(90, Origin) }

----------------------------------------------------------------------------
(* The script *)

InitWith(Routes, Densities, Tokens) ==
    /\ routes \in Routes
    /\ sample_points \in Densities
    /\ AQICN_TOKEN \in Tokens
    /\ pc = "start"
    /\ i = 1
    /\ sampled_points = << >>
    /\ k = 1
    /\ pm_values = << >>
    /\ returned = << >>
    /\ lookups = 0
    /\ primary = NotCalled
    /\ secondary = FeedNotCalled
    /\ pm = None
    /\ metrics = NoMetrics
    /\ cache = {}
    /\ produced = << >>
    /\ route_scores = << >>
    /\ best = << >>

\* app.py: if not routes: st.error(...); st.stop()
CheckRoutes ==
    /\ pc = "start"
    /\ pc' = IF routes = << >> THEN "no_routes" ELSE "score"
    /\ UNCHANGED << routes, sample_points, AQICN_TOKEN, i, sampled_points, k, pm_values,
                    returned, lookups, primary, secondary, pm, metrics, cache, produced,
                    route_scores, best >>

\* app.py: if metrics: route_scores.append((i, metrics["healthiness_score"], ...))
Appended(scores, id, m, route_coords) ==
    IF m.tag = "val" THEN Append(scores, ScoreEntry(id, m, route_coords)) ELSE scores

\* app.py: metrics = cached_metrics(route_coords, samples=sample_points).  A cached
\* result is returned as it is; otherwise compute_route_metrics starts: it samples
\* the route and enters its loop.
ScoreRoute ==
    /\ pc = "score"
    /\ i <= Len(routes)
    /\ IF InCache(cache, routes[i])
       THEN /\ metrics' = CacheGet(cache, routes[i])
            /\ produced' = Append(produced, metrics')
            /\ route_scores' = Appended(route_scores, i, metrics', routes[i])
            /\ i' = i + 1
            /\ UNCHANGED << pc, sampled_points, k, pm_values, returned, lookups >>
       ELSE /\ sampled_points' = sample_route_points(routes[i], sample_points)
            /\ k' = 1
            /\ pm_values' = << >>
            /\ returned' = << >>
            /\ lookups' = 0
            /\ pc' = "lookup"
            /\ UNCHANGED << metrics, produced, route_scores, i >>
    /\ UNCHANGED << routes, sample_points, AQICN_TOKEN, primary, secondary, pm, cache,
                    best >>

\* compute_route_metrics: one turn of "for lat, lon in sampled_points": the call of
\* get_pm25_nearby with the providers answering p and s, then "if pm: append".
\* An exception leaving get_pm25_nearby ends the script in app.py's except clause.
Lookup(Primary, Secondary) ==
    /\ pc = "lookup"
    /\ k <= Len(sampled_points)
    /\ \E p \in Primary, s \in Secondary :
         LET lat == sampled_points[k][1]
             lon == sampled_points[k][2]
             x == get_pm25_nearby(lat, lon, AQICN_TOKEN, p, s)
             fallback == get_pm25_openaq(lat, lon, p) = None /\ AQICN_TOKEN
         IN  /\ primary' = p
             /\ secondary' = IF fallback THEN s ELSE FeedNotCalled
             /\ pm' = x
             /\ returned' = Append(returned, x)
             /\ lookups' = lookups + 1
             /\ IF x = Raised
                THEN /\ pc' = "error"
                     /\ UNCHANGED << pm_values, k >>
                ELSE /\ pm_values' = IF Truthy(x) THEN Append(pm_values, x.v) ELSE pm_values
                     /\ k' = k + 1
                     /\ pc' = pc
    /\ UNCHANGED << routes, sample_points, AQICN_TOKEN, i, sampled_points, metrics, cache,
                    produced, route_scores, best >>

\* compute_route_metrics after the loop: None without readings, the record otherwise.
Aggregate ==
    /\ pc = "lookup"
    /\ k > Len(sampled_points)
    /\ metrics' = route_metrics(pm_values, Len(sampled_points))
    /\ pc' = "computed"
    /\ UNCHANGED << routes, sample_points, AQICN_TOKEN, i, sampled_points, k, pm_values,
                    returned, lookups, primary, secondary, pm, cache, produced,
                    route_scores, best >>

\* cached_metrics stores the result; app.py appends the route when it has metrics
\* and goes on to the next route.
Store ==
    /\ pc = "computed"
    /\ cache' = cache \cup { << routes[i], metrics >> }
    /\ produced' = Append(produced, metrics)
    /\ route_scores' = Appended(route_scores, i, metrics, routes[i])
    /\ i' = i + 1
    /\ pc' = "score"
    /\ UNCHANGED << routes, sample_points, AQICN_TOKEN, sampled_points, k, pm_values,
                    returned, lookups, primary, secondary, pm, metrics, best >>

\* app.py: if not route_scores: st.error(...); st.stop()
\*         route_scores.sort(key=lambda x: x[1], reverse=True); best = route_scores[0]
Rank ==
    /\ pc = "score"
    /\ i > Len(routes)
    /\ IF route_scores = << >>
       THEN /\ pc' = "stopped"
            /\ UNCHANGED << route_scores, best >>
       ELSE /\ route_scores' = sort_by_score(route_scores)
            /\ best' = route_scores'[1]
            /\ pc' = "done"
    /\ UNCHANGED << routes, sample_points, AQICN_TOKEN, i, sampled_points, k, pm_values,
                    returned, lookups, primary, secondary, pm, metrics, cache, produced >>

\* The ranking of up to MaxRoutes candidate routes.
Init == InitWith(RankRoutes, { SLIDER_MIN }, { FALSE })

Next ==
    \/ CheckRoutes
    \/ ScoreRoute
    \/ Lookup(RankPrimary, { FeedNetError })
    \/ Aggregate
    \/ Store
    \/ Rank

Spec == Init /\ [][Next]_vars

\* The sampler on one route of any shape.
InitSampler == InitWith(SamplerRoutes, 1..MaxSamples, { FALSE })

NextSampler ==
    \/ CheckRoutes
    \/ ScoreRoute
    \/ Lookup(SamplerPrimary, { FeedNetError })
    \/ Aggregate
    \/ Store
    \/ Rank

SpecSampler == InitSampler /\ [][NextSampler]_vars

\* One lookup against every kind of provider response.
InitSource == InitWith(SourceRoutes, { SLIDER_MIN }, BOOLEAN)

NextSource ==
    \/ CheckRoutes
    \/ ScoreRoute
    \/ Lookup(SourcePrimary, SourceSecondary)
    \/ Aggregate
    \/ Store
    \/ Rank

SpecSource == InitSource /\ [][NextSource]_vars

\* The metrics of one route.
InitMetrics == InitWith(MetricsRoutes, 1..MaxSamples, { FALSE })

NextMetrics ==
    \/ CheckRoutes
    \/ ScoreRoute
    \/ Lookup(MetricsPrimary, { FeedNetError })
    \/ Aggregate
    \/ Store
    \/ Rank

SpecMetrics == InitMetrics /\ [][NextMetrics]_vars

----------------------------------------------------------------------------
(* Properties *)

\* The route being scored and the query point of the last lookup.
Route == routes[i]

CeilDiv(a, b) == (a + b - 1) \div b

\* x is a/b (b > 0) rounded to a nearest integer.
Rounded(x, a, b) == 2 * Abs(x * b - a) <= b

\* The number of samples for which get_pm25_nearby returned a value.
RECURSIVE CountVals(_)
CountVals(s) ==
    IF s = << >> THEN 0
    ELSE (IF Head(s).tag = "val" THEN 1 ELSE 0) + CountVals(Tail(s))

Ids(scores) == { scores[a][1] : a \in DOMAIN scores }

\* A station record the code cannot read: its first pm25 measurement has no "value",
\* or it has a value and its coordinates have no "latitude".
Unreadable(item) ==
    /\ item.measurements # << >>
    /\ \/ FirstPm25(item.measurements).t = "missing"
       \/ /\ FirstPm25(item.measurements).t = "num"
          /\ item.coordinates.t = "nolat"

\* A station record with a PM2.5 value and a coordinate.
Valid(item) ==
    /\ FirstPm25(item.measurements).t = "num"
    /\ item.coordinates.t = "ok"

\* The primary's failure outcomes: network error or timeout, non-2xx status,
\* malformed response, empty result set, no station with PM2.5.
PrimaryFailed(r) ==
    \/ r.net = "error"
    \/ r.status # 200
    \/ r.body # "json"
    \/ \E a \in DOMAIN r.results : Unreadable(r.results[a])
    \/ \A a \in DOMAIN r.results : ~Valid(r.results[a])

\* The secondary answered with a PM2.5 number.
SecondaryYields(r) ==
    /\ r.net = "ok" /\ r.status = 200 /\ r.body = "json" /\ r.jstatus = "ok"
    /\ r.iaqi /\ r.pm25.t = "num"

\* The secondary's failure outcomes: missing credential (not called), network
\* error, non-2xx status, malformed response, unauthorized, no PM2.5 in the feed.
SecondaryFailed(r) ==
    \/ r.net # "ok"
    \/ r.status # 200
    \/ r.body # "json"
    \/ r.jstatus # "ok"
    \/ ~r.iaqi
    \/ r.pm25.t \in { "missing", "null", "str" }

\* C1: sample_route_points returns at most max_samples points, and no points only
\* for an empty route.
C1_AtMostMaxSamples ==
    pc = "lookup" =>
        /\ Len(sampled_points) <= sample_points
        /\ (Len(sampled_points) = 0 => Route = << >>)

\* C2: get_pm25_nearby returns the primary's weighted reading when the primary has
\* one, otherwise the secondary's reading when the secondary answers with one, and
\* None only when neither provider produced a value.
C2_PrimaryThenSecondary ==
    (lookups > 0 /\ pc # "error") =>
        LET q == sampled_points[lookups]
            a == get_pm25_openaq(q[1], q[2], primary)
        IN  /\ ~PrimaryFailed(primary) => (pm = a /\ pm # None)
            /\ (PrimaryFailed(primary) /\ SecondaryYields(secondary))
                   => pm = Val(100 * secondary.pm25.n)
            /\ pm = None => (PrimaryFailed(primary) /\ ~SecondaryYields(secondary))

\* C3: every sample for which get_pm25_nearby returned a value (0 included) adds
\* exactly one entry to pm_values, so samples_used counts those samples.
C3_EveryReadingCounted ==
    /\ pc \in { "lookup", "computed" } => Len(pm_values) = CountVals(returned)
    /\ (pc = "computed" /\ metrics.tag = "val")
           => metrics.samples_used = CountVals(returned)

\* C4: every provider failure ends in None being returned; no failure reaches the
\* caller as an exception.
C4_FailuresBecomeAbsent ==
    /\ pc # "error"
    /\ pm # Raised
    /\ lookups > 0 =>
          /\ (PrimaryFailed(primary) /\ SecondaryFailed(secondary)) => pm = None
          /\ (PrimaryFailed(primary) /\ SecondaryYields(secondary)
                /\ secondary.pm25.n # 0) => pm = Val(100 * secondary.pm25.n)

\* Both providers have failed (the primary on a network error, the secondary on a
\* malformed body) and the reading is None.
C4_Witness ==
    /\ lookups = 1
    /\ primary = NetError
    /\ AQICN_TOKEN
    /\ secondary.body = "garbage"
    /\ pm = None
    /\ pc = "lookup"

\* C5: after the sort the scored routes are in descending healthiness order, equal
\* scores keep their input order, best is the first entry, and every entry carries
\* the ordinal, route and metrics of its route in the input list.
C5_StableDescendingRanking ==
    pc = "done" =>
        /\ \A a, b \in DOMAIN route_scores :
              a < b => /\ route_scores[a][2] >= route_scores[b][2]
                       /\ route_scores[a][2] = route_scores[b][2]
                              => route_scores[a][1] < route_scores[b][1]
        /\ best = route_scores[1]
        /\ \A a \in DOMAIN route_scores :
              LET id == route_scores[a][1]
              IN  /\ id \in DOMAIN routes
                  /\ route_scores[a][4] = routes[id]
                  /\ route_scores[a][3] = produced[id]
                  /\ route_scores[a][2] = produced[id].healthiness_score
        /\ Ids(route_scores) = { j \in DOMAIN produced : produced[j].tag = "val" }
        /\ Cardinality(Ids(route_scores)) = Len(route_scores)

\* Route 1 was skipped, routes 2 and 3 tie behind nothing and keep their ordinals.
C5_Witness ==
    /\ pc = "done"
    /\ Len(routes) = 3
    /\ produced[1] = NoMetrics
    /\ Len(route_scores) = 2
    /\ route_scores[1][2] = route_scores[2][2]
    /\ route_scores[1][1] = 2
    /\ route_scores[2][1] = 3

\* C6: a route whose samples all return None gets no metrics; it is left out of
\* route_scores while the others are scored; the script stops with "no AQ data"
\* exactly when no route produced metrics.
C6_AbsentRouteSkipped ==
    /\ (pc = "computed" /\ \A j \in DOMAIN returned : returned[j] = None)
           => metrics = NoMetrics
    /\ pc \in { "score", "stopped", "done" }
           => Ids(route_scores) = { j \in DOMAIN produced : produced[j].tag = "val" }
    /\ pc = "stopped"
           => /\ Len(produced) = Len(routes)
              /\ \A j \in DOMAIN produced : produced[j] = NoMetrics
    /\ pc = "done"
           => /\ Len(produced) = Len(routes)
              /\ \E j \in DOMAIN produced : produced[j] # NoMetrics

\* A sampled route without any reading is left out and another route is ranked.
C6_Witness ==
    /\ pc = "done"
    /\ \E j \in DOMAIN produced :
          /\ routes[j] # << >>
          /\ produced[j] = NoMetrics
          /\ j \notin Ids(route_scores)
    /\ route_scores # << >>

\* C7: for non-empty pm_values the record holds avg = sum/len(pm_values),
\* max = the maximum, pollution = 0.7*avg + 0.3*max and
\* healthiness = max(0, 100 - pollution/5), each rounded to 2 decimals;
\* [40, 60, 80] gives 60.00, 80, 66.00, 86.80.
C7_MetricsFormula ==
    (pc = "computed" /\ pm_values # << >>) =>
        LET n == Len(pm_values)
            S == SumSeq(pm_values)
            M == metrics.max_pm25
            h == 500000 * n - 7 * S - 3 * M * n
        IN  /\ metrics.tag = "val"
            /\ Rounded(metrics.avg_pm25, S, n)
            /\ \A j \in DOMAIN pm_values : pm_values[j] <= M
            /\ \E j \in DOMAIN pm_values : pm_values[j] = M
            /\ Rounded(metrics.pollution_score, 7 * S + 3 * M * n, 10 * n)
            /\ IF h <= 0 THEN metrics.healthiness_score = 0
               ELSE Rounded(metrics.healthiness_score, h, 50 * n)
            /\ pm_values = << 4000, 6000, 8000 >>
                  => /\ metrics.avg_pm25 = 6000
                     /\ metrics.max_pm25 = 8000
                     /\ metrics.pollution_score = 6600
                     /\ metrics.healthiness_score = 8680

\* The readings [40, 60, 80] of a route of 4 sampled points have been scored
\* (one sample gave no reading).
C7_Witness ==
    /\ pc = "computed"
    /\ Len(sampled_points) = 4
    /\ pm_values = << 4000, 6000, 8000 >>
    /\ metrics.healthiness_score = 8680

\* C8: every metrics record has a healthiness_score within 0..100.
C8_HealthinessInRange ==
    metrics.tag = "val" =>
        /\ metrics.healthiness_score >= 0
        /\ metrics.healthiness_score <= 10000

\* C9: sample_route_points returns the points at indices 0, step, 2*step, ... with
\* step = max(1, len(route) // max_samples), in route order; the whole route when
\* max_samples >= len(route); never more points than the route has.
C9_UniformStride ==
    pc = "lookup" =>
        LET n == Len(Route)
            step == Max2(1, n \div sample_points)
        IN  /\ Len(sampled_points) <= n
            /\ \A j \in DOMAIN sampled_points :
                  /\ (j - 1) * step + 1 <= n
                  /\ sampled_points[j] = Route[(j - 1) * step + 1]
            /\ Len(sampled_points) * step + 1 > n
            /\ sample_points >= n => sampled_points = Route

\* A route of 6 points, not all alike, sampled with stride 2.
C9_Witness ==
    /\ pc = "lookup"
    /\ Len(Route) = 6
    /\ sample_points = 3
    /\ Len(sampled_points) = 3
    /\ Route[1] # Route[2]
    /\ Route[3] # Route[4]

\* C10: for a non-empty route the sampler returns ceil(len(route)/step) points,
\* fewer than 2*max_samples, so compute_route_metrics makes fewer than
\* 2*sample_count lookups per route.
C10_FewerThanTwiceMaxSamples ==
    /\ (pc = "lookup" /\ Route # << >>) =>
          LET n == Len(Route)
              step == Max2(1, n \div sample_points)
          IN  /\ Len(sampled_points) = CeilDiv(n, step)
              /\ Len(sampled_points) < 2 * sample_points
    /\ pc = "computed" =>
          /\ lookups = Len(sampled_points)
          /\ lookups < 2 * sample_points

\* The bound is met: 2*max_samples - 1 lookups were made for one route.
C10_Witness ==
    /\ pc = "computed"
    /\ sample_points >= 2
    /\ lookups = 2 * sample_points - 1

====
